---- MODULE Spec2Model ----
(***************************************************************************)
(* Model of meeting_scheduler_ortools.py: a single-run script that turns   *)
(* a participant table and a meeting table into a CP-SAT model (one        *)
(* boolean per feasible (meeting, start slot) pair), hands it to the       *)
(* solver and decodes the returned assignment into schedule rows.          *)
(*                                                                         *)
(* Representation of the numbers the script handles:                      *)
(*   - a datetime.time is a pair <<hour, minute>>;                         *)
(*   - utc_offset_hours (a float) is an integer number of hundredths of    *)
(*     an hour, so 5.75 is 575 and -8 is -800;                             *)
(*   - the float returned by slot_to_local_hour, hour + minute/60.0, is    *)
(*     the pair <<hour, minute>>;                                          *)
(*   - None is the empty tuple <<>>.                                       *)
(***************************************************************************)
EXTENDS Integers, Sequences, FiniteSets, TLC

VARIABLES
    pc,                      \* position of the script
    participants,            \* the participant table (input)
    meetings,                \* the meeting table (input)
    participant_avail,       \* name -> boolean vector of length HORIZON_SLOTS
    participant_utc_offsets, \* name -> utc offset
    meeting_candidates,      \* mid -> ascending sequence of start slots
    meeting_duration_slots,  \* mid -> duration in slots
    start_vars,              \* keys <<mid, s>> of the decision variables
    constraints,             \* constraints added to the CP-SAT model
    start_cost,              \* <<mid, s>> -> discomfort cost
    objective_terms,         \* set of <<key, cost>> terms of the objective
    status,                  \* solver status
    value,                   \* the variables the solver set to 1
    rows,                    \* decoded schedule rows
    stdout                   \* what the script printed

vars == <<pc, participants, meetings, participant_avail, participant_utc_offsets,
          meeting_candidates, meeting_duration_slots, start_vars, constraints,
          start_cost, objective_terms, status, value, rows, stdout>>

----------------------------------------------------------------------------
(* Configuration *)

SLOT_MIN == 30

SLOTS_PER_DAY == (24 * 60) \div SLOT_MIN

HORIZON_SLOTS == SLOTS_PER_DAY

None == <<>>

EmptyMap == [x \in {} |-> 0]

Range(f) == {f[x] : x \in DOMAIN f}

\* math.floor(a / b) and math.ceil(a / b) for integers a and b > 0
FloorDiv(a, b) == a \div b

CeilDiv(a, b) == -((-a) \div b)

----------------------------------------------------------------------------
(* Input domains *)

MaxRequired == 3

MeetingIds == <<"M1", "M2">>

ParticipantNames == <<"P1", "P2", "P3">>

\* a name that is in no participant table
Stranger == "Zed"

\* Eve of the example table; a window that starts on the previous UTC day;
\* a window that ends on the next UTC day; a quarter-hour offset whose slot
\* midpoints fall on whole local hours; an offset whose slot midpoints fall on
\* minutes 6 and 36
Profiles ==
    { [utc_off |-> 0,    start_local |-> <<9, 0>>,  end_local |-> <<17, 0>>],
      [utc_off |-> 1400, start_local |-> <<9, 0>>,  end_local |-> <<17, 0>>],
      [utc_off |-> -800, start_local |-> <<14, 0>>, end_local |-> <<17, 0>>],
      [utc_off |-> 575,  start_local |-> <<16, 0>>, end_local |-> <<18, 0>>],
      [utc_off |-> 35,   start_local |-> <<16, 0>>, end_local |-> <<17, 0>>] }

\* the last participant is drawn from the offsets 0 and 5.75 only
LastProfiles == {p \in Profiles : p.utc_off \in {0, 575}}

ParticipantTables ==
    { [i \in 1..Len(ParticipantNames) |->
         [name |-> ParticipantNames[i], utc_off |-> f[i].utc_off,
          start_local |-> f[i].start_local, end_local |-> f[i].end_local]] :
      f \in { g \in [1..Len(ParticipantNames) -> Profiles] :
                g[Len(ParticipantNames)] \in LastProfiles } }

Durations == {30, 45, 49 * SLOT_MIN}

CallList == ParticipantNames \o <<Stranger>>

\* the i-th meeting requires a run of the call list that starts at its i-th name
RequiredLists(i) ==
    { SubSeq(CallList, i, i + n - 1) :
        n \in {k \in 1..MaxRequired : i + k - 1 <= Len(CallList)} }

MeetingTables ==
    UNION { { [i \in 1..n |->
                [mid |-> MeetingIds[i], dur_min |-> f[i][1], required |-> f[i][2]]] :
              f \in { g \in [1..n -> Durations \X UNION {RequiredLists(i) : i \in 1..n}] :
                        \A i \in 1..n : g[i][2] \in RequiredLists(i) } } :
            n \in 1..Len(MeetingIds) }

----------------------------------------------------------------------------
(* Solver statuses (cp_model) *)

UNKNOWN == "UNKNOWN"

INFEASIBLE == "INFEASIBLE"

FEASIBLE == "FEASIBLE"

OPTIMAL == "OPTIMAL"

NotSolved == "not solved"

----------------------------------------------------------------------------
(* Time-slot model and availability *)

\* int(round(utc_offset_hours * 60)); the offset is given in hundredths of an
\* hour, and c * 60 / 100 never falls on a half, so round is round-to-nearest
OffsetMinutes(utc_off) == FloorDiv(utc_off * 60 + 50, 100)

MinutesOfDay(t) == t[1] * 60 + t[2]

local_window_to_utc_slots_signflip(utc_offset_hours, start_local, end_local) ==
    LET offset_minutes == OffsetMinutes(utc_offset_hours)
        start_slot == FloorDiv(MinutesOfDay(start_local) + offset_minutes, SLOT_MIN)
        end_slot == CeilDiv(MinutesOfDay(end_local) + offset_minutes, SLOT_MIN)
    IN  [i \in 1..HORIZON_SLOTS |-> (i - 1) >= start_slot /\ (i - 1) < end_slot]

\* the vector is 1-indexed: entry s + 1 is slot s
local_window_to_utc_slots(utc_offset_hours, start_local, end_local) ==
    LET offset_minutes == OffsetMinutes(utc_offset_hours)
        start_minutes_local == MinutesOfDay(start_local)
        end_minutes_local == MinutesOfDay(end_local)
        start_utc_minutes == start_minutes_local - offset_minutes
        end_utc_minutes == end_minutes_local - offset_minutes
        start_slot == FloorDiv(start_utc_minutes, SLOT_MIN)
        end_slot == CeilDiv(end_utc_minutes, SLOT_MIN)
    IN  [i \in 1..HORIZON_SLOTS |-> (i - 1) >= start_slot /\ (i - 1) < end_slot]

\* hour + minute/60.0 as the pair <<hour, minute>>
slot_to_local_hour(slot_index, utc_offset_hours) ==
    LET minutes_utc == slot_index * SLOT_MIN + SLOT_MIN \div 2
        minutes_local == (minutes_utc + OffsetMinutes(utc_offset_hours)) % (24 * 60)
    IN  <<minutes_local \div 60, minutes_local % 60>>

\* The local times, in minutes of the day, at which the double arithmetic of
\* int(math.ceil(dist * 10)), with dist = 9 - (hour + minute/60.0) or
\* (hour + minute/60.0) - 17, comes out one above the exact ceiling of
\* 10 * dist: minute/60.0 is inexact there and the product lands just above
\* an integer.
CeilRoundsUp ==
    { 366, 396, 426, 456, 468, 486, 492, 516, 522,
      1026, 1038, 1056, 1068, 1086, 1098, 1116, 1128, 1146, 1158, 1176, 1188,
      1206, 1218, 1236, 1248, 1266, 1278, 1296, 1308, 1326, 1338, 1356, 1368,
      1386, 1398, 1416 }

\* int(math.ceil(dist * 10)) for a local hour outside [9, 17)
CeilTenTimesDist(local_hour) ==
    LET m == local_hour[1] * 60 + local_hour[2]
        dist_minutes == IF m < 9 * 60 THEN 9 * 60 - m ELSE m - 17 * 60
    IN  CeilDiv(dist_minutes * 10, 60) + (IF m \in CeilRoundsUp THEN 1 ELSE 0)

slot_discomfort_for_participant(slot, participant_name) ==
    LET utc_off == participant_utc_offsets[participant_name]
        local_hour == slot_to_local_hour(slot, utc_off)
        m == local_hour[1] * 60 + local_hour[2]
    IN  IF 9 * 60 <= m /\ m < 17 * 60 THEN 0 ELSE CeilTenTimesDist(local_hour)

----------------------------------------------------------------------------
(* Candidate start slots *)

DurSlots(dur_min) == CeilDiv(dur_min, SLOT_MIN)

\* The body of the loop over s (lines 78-87): "ok", "no", or "KeyError" when
\* participant_avail[p] is looked up for a name that is not a key.
RECURSIVE ScanStart(_, _, _, _, _)
ScanStart(avail, required, i, s, dur_slots) ==
    IF i > Len(required) THEN "ok"
    ELSE IF required[i] \notin DOMAIN avail THEN "KeyError"
    ELSE IF \E t \in s..(s + dur_slots - 1) : ~avail[required[i]][t + 1] THEN "no"
    ELSE ScanStart(avail, required, i + 1, s, dur_slots)

StartRange_short(dur_slots) == 0..(HORIZON_SLOTS - dur_slots - 1)

\* range(HORIZON_SLOTS - dur_slots + 1)
StartRange(dur_slots) == 0..(HORIZON_SLOTS - dur_slots)

\* candidates of one meeting, or the KeyError the scan raises
CandidatesFor(avail, m) ==
    LET dur_slots == DurSlots(m.dur_min)
        starts == StartRange(dur_slots)
        scan == [s \in starts |-> ScanStart(avail, m.required, 1, s, dur_slots)]
        all == [i \in 1..HORIZON_SLOTS |-> i - 1]
    IN  IF \E s \in starts : scan[s] = "KeyError"
        THEN [raised |-> TRUE, candidates |-> <<>>]
        ELSE [raised |-> FALSE,
              candidates |-> SelectSeq(all, LAMBDA s : s \in starts /\ scan[s] = "ok")]

\* the index of the first meeting whose scan raises, or Len(meetings) + 1
FirstRaise(avail) ==
    LET bad == {i \in 1..Len(meetings) : CandidatesFor(avail, meetings[i]).raised}
    IN  IF bad = {} THEN Len(meetings) + 1
        ELSE CHOOSE i \in bad : \A j \in bad : i <= j

----------------------------------------------------------------------------
(* CP-SAT model *)

StartVarsOf(cands, m) == {<<m.mid, cands[m.mid][k]>> : k \in 1..Len(cands[m.mid])}

ExactlyOne_skipempty(cands, m) ==
    LET vars_for_mid == StartVarsOf(cands, m)
    IN  IF vars_for_mid = {} THEN {}
        ELSE {[kind |-> "SumEq1", vars |-> vars_for_mid]}

\* lines 98-104: sum(vars_for_mid) == 1, or the empty BoolOr
ExactlyOne(cands, m) ==
    LET vars_for_mid == StartVarsOf(cands, m)
    IN  IF vars_for_mid = {}
        THEN {[kind |-> "BoolOr", vars |-> {}]}
        ELSE {[kind |-> "SumEq1", vars |-> vars_for_mid]}

Occupying_startonly(cands, durs, p_name, t) ==
    UNION { {v \in StartVarsOf(cands, meetings[i]) : v[2] = t} :
            i \in {j \in 1..Len(meetings) : p_name \in Range(meetings[j].required)} }

\* lines 109-116: the variables of the meetings requiring p_name that cover t
Occupying(cands, durs, p_name, t) ==
    UNION { {v \in StartVarsOf(cands, meetings[i]) :
                v[2] <= t /\ t < v[2] + durs[meetings[i].mid]} :
            i \in {j \in 1..Len(meetings) : p_name \in Range(meetings[j].required)} }

\* lines 107-118
NoDoubleBooking(cands, durs) ==
    { [kind |-> "SumLe1", vars |-> Occupying(cands, durs, participants[i].name, t)] :
        <<i, t>> \in { x \in (1..Len(participants)) \X (0..(HORIZON_SLOTS - 1)) :
                        Occupying(cands, durs, participants[x[1]].name, x[2]) # {} } }

\* lines 133-140
CostOf(m, s) ==
    LET dur == meeting_duration_slots[m.mid]
        pen == [x \in (s..(s + dur - 1)) \X (1..Len(m.required)) |->
                  slot_discomfort_for_participant(x[1], m.required[x[2]])]
        SumUpTo[n \in 0..(dur * Len(m.required))] ==
            IF n = 0 THEN 0
            ELSE SumUpTo[n - 1]
                 + pen[<<s + ((n - 1) \div Len(m.required)), 1 + ((n - 1) % Len(m.required))>>]
    IN  SumUpTo[dur * Len(m.required)]

MeetingOf(mid) == meetings[CHOOSE i \in 1..Len(meetings) : meetings[i].mid = mid]

ObjectiveTerms_zeroonly(costs) == {<<k, costs[k]>> : k \in {v \in DOMAIN costs : costs[v] = 0}}

\* lines 142-146: the terms var * cost with cost != 0
ObjectiveTerms(costs) == {<<k, costs[k]>> : k \in {v \in DOMAIN costs : costs[v] # 0}}

----------------------------------------------------------------------------
(* The solver: any assignment that satisfies the constraints *)

Holds(c, T) ==
    CASE c.kind = "BoolOr" -> c.vars \cap T # {}
      [] c.kind = "SumEq1" -> Cardinality(c.vars \cap T) = 1
      [] c.kind = "SumLe1" -> Cardinality(c.vars \cap T) <= 1

\* Every satisfying assignment sets exactly one variable of each SumEq1
\* constraint, so the assignments are enumerated as one pick per SumEq1
\* constraint plus any subset of the variables no SumEq1 constraint mentions.
Satisfying(cs, allvars) ==
    LET eqs == {c \in cs : c.kind = "SumEq1"}
        free == allvars \ UNION {c.vars : c \in eqs}
        picks == {f \in [eqs -> allvars] : \A c \in eqs : f[c] \in c.vars}
    IN  IF \E c \in cs : c.kind = "BoolOr" /\ c.vars = {} THEN {}
        ELSE { T \in { Range(f) \cup F : f \in picks, F \in SUBSET free } :
                 \A c \in cs : Holds(c, T) }

RECURSIVE SumTerms(_)
SumTerms(terms) ==
    IF terms = {} THEN 0
    ELSE LET x == CHOOSE y \in terms : TRUE
         IN  x[2] + SumTerms(terms \ {x})

Objective(terms, T) == SumTerms({x \in terms : x[1] \in T})

Minimal(terms, sols) == {T \in sols : \A U \in sols : Objective(terms, T) <= Objective(terms, U)}

----------------------------------------------------------------------------
(* Decoding *)

\* (EPOCH_DATE + timedelta(minutes=n)).time() as <<hour, minute>>
ClockAt(n) == <<(n \div 60) % 24, n % 60>>

\* lines 157-162: the first candidate whose variable is 1, or None
Chosen(m) ==
    LET c == meeting_candidates[m.mid]
        hit == {k \in 1..Len(c) : <<m.mid, c[k]>> \in value}
    IN  IF hit = {} THEN None
        ELSE <<c[CHOOSE k \in hit : \A j \in hit : k <= j]>>

\* lines 163-185
RowOf(m) ==
    LET chosen == Chosen(m)
    IN  [Meeting |-> m.mid,
         StartUTC |-> IF chosen # None THEN ClockAt(chosen[1] * SLOT_MIN) ELSE None,
         EndUTC |-> IF chosen # None
                    THEN ClockAt(chosen[1] * SLOT_MIN
                                 + meeting_duration_slots[m.mid] * SLOT_MIN)
                    ELSE None,
         Attendees |-> m.required,
         Penalty |-> IF chosen # None THEN <<start_cost[<<m.mid, chosen[1]>>]>> ELSE None]

----------------------------------------------------------------------------
(* The script, one action per stage *)

Init ==
    /\ pc = "availability"
    /\ participants \in ParticipantTables
    /\ meetings \in MeetingTables
    /\ participant_avail = EmptyMap
    /\ participant_utc_offsets = EmptyMap
    /\ meeting_candidates = EmptyMap
    /\ meeting_duration_slots = EmptyMap
    /\ start_vars = {}
    /\ constraints = {}
    /\ start_cost = EmptyMap
    /\ objective_terms = {}
    /\ status = NotSolved
    /\ value = {}
    /\ rows = <<>>
    /\ stdout = <<>>

\* the last entry of the table with this name, as a dict built in table order
EntryOf(name) ==
    participants[CHOOSE i \in 1..Len(participants) :
                    /\ participants[i].name = name
                    /\ \A j \in 1..Len(participants) :
                         participants[j].name = name => j <= i]

\* lines 56-60
ResolveAvailability ==
    /\ pc = "availability"
    /\ participant_avail' =
         [n \in {participants[i].name : i \in 1..Len(participants)} |->
            local_window_to_utc_slots(EntryOf(n).utc_off, EntryOf(n).start_local,
                                      EntryOf(n).end_local)]
    /\ participant_utc_offsets' =
         [n \in {participants[i].name : i \in 1..Len(participants)} |->
            EntryOf(n).utc_off]
    /\ pc' = "candidates"
    /\ UNCHANGED <<participants, meetings, meeting_candidates, meeting_duration_slots,
                   start_vars, constraints, start_cost, objective_terms, status,
                   value, rows, stdout>>

\* lines 71-88; a KeyError ends the script
GenerateCandidates ==
    /\ pc = "candidates"
    /\ LET stop == FirstRaise(participant_avail)
           done == {meetings[i].mid : i \in 1..(stop - 1)}
           seen == {meetings[i].mid : i \in {j \in 1..Len(meetings) : j <= stop}}
       IN  /\ meeting_candidates' =
                [mid \in done |-> CandidatesFor(participant_avail, MeetingOf(mid)).candidates]
           /\ meeting_duration_slots' =
                [mid \in seen |-> DurSlots(MeetingOf(mid).dur_min)]
           /\ pc' = IF stop <= Len(meetings) THEN "crashed" ELSE "model"
    /\ UNCHANGED <<participants, meetings, participant_avail, participant_utc_offsets,
                   start_vars, constraints, start_cost, objective_terms, status,
                   value, rows, stdout>>

\* lines 91-118
BuildModel ==
    /\ pc = "model"
    /\ start_vars' = UNION {StartVarsOf(meeting_candidates, meetings[i]) :
                              i \in 1..Len(meetings)}
    /\ constraints' =
         UNION {ExactlyOne(meeting_candidates, meetings[i]) : i \in 1..Len(meetings)}
         \cup NoDoubleBooking(meeting_candidates, meeting_duration_slots)
    /\ pc' = "objective"
    /\ UNCHANGED <<participants, meetings, participant_avail, participant_utc_offsets,
                   meeting_candidates, meeting_duration_slots, start_cost,
                   objective_terms, status, value, rows, stdout>>

\* lines 132-147
AttachObjective ==
    /\ pc = "objective"
    /\ LET costs == [v \in start_vars |-> CostOf(MeetingOf(v[1]), v[2])]
       IN  /\ start_cost' = costs
           /\ objective_terms' = ObjectiveTerms(costs)
    /\ pc' = "solve"
    /\ UNCHANGED <<participants, meetings, participant_avail, participant_utc_offsets,
                   meeting_candidates, meeting_duration_slots, start_vars, constraints,
                   status, value, rows, stdout>>

\* lines 149-152: OPTIMAL with a minimal solution, FEASIBLE with any solution,
\* INFEASIBLE when there is none, UNKNOWN when the time budget runs out first
Solve ==
    /\ pc = "solve"
    /\ LET sols == Satisfying(constraints, start_vars)
       IN  \/ /\ status' = OPTIMAL
              /\ value' \in Minimal(objective_terms, sols)
           \/ /\ status' = FEASIBLE
              /\ value' \in sols
           \/ /\ sols = {}
              /\ status' = INFEASIBLE
              /\ value' = {}
           \/ /\ status' = UNKNOWN
              /\ value' = {}
    /\ pc' = "report"
    /\ UNCHANGED <<participants, meetings, participant_avail, participant_utc_offsets,
                   meeting_candidates, meeting_duration_slots, start_vars, constraints,
                   start_cost, objective_terms, rows, stdout>>

\* lines 155-185
Decode ==
    /\ pc = "report"
    /\ status \in {OPTIMAL, FEASIBLE}
    /\ rows' = [i \in 1..Len(meetings) |-> RowOf(meetings[i])]
    /\ pc' = "print"
    /\ UNCHANGED <<participants, meetings, participant_avail, participant_utc_offsets,
                   meeting_candidates, meeting_duration_slots, start_vars, constraints,
                   start_cost, objective_terms, status, value, stdout>>

\* lines 186-187
ReportNoSolution ==
    /\ pc = "report"
    /\ status \notin {OPTIMAL, FEASIBLE}
    /\ stdout' = Append(stdout, [text |-> "No feasible solution found. Solver status:",
                                 arg |-> status])
    /\ pc' = "print"
    /\ UNCHANGED <<participants, meetings, participant_avail, participant_utc_offsets,
                   meeting_candidates, meeting_duration_slots, start_vars, constraints,
                   start_cost, objective_terms, status, value, rows>>

\* lines 189-190
PrintTable ==
    /\ pc = "print"
    /\ stdout' = Append(stdout, [text |-> "table", arg |-> rows])
    /\ pc' = "done"
    /\ UNCHANGED <<participants, meetings, participant_avail, participant_utc_offsets,
                   meeting_candidates, meeting_duration_slots, start_vars, constraints,
                   start_cost, objective_terms, status, value, rows>>

Next ==
    \/ ResolveAvailability
    \/ GenerateCandidates
    \/ BuildModel
    \/ AttachObjective
    \/ Solve
    \/ Decode
    \/ ReportNoSolution
    \/ PrintTable

Spec == Init /\ [][Next]_vars

----------------------------------------------------------------------------
(* Properties *)

Slots == 0..(HORIZON_SLOTS - 1)

Solved == status \in {OPTIMAL, FEASIBLE}

Decoded == pc \in {"print", "done"} /\ Solved

KnownNames == {participants[i].name : i \in 1..Len(participants)}

MentionedNames == KnownNames \cup UNION {Range(meetings[i].required) : i \in 1..Len(meetings)}

\* the start slot a row shows
RowSlot(r) == (r.StartUTC[1] * 60 + r.StartUTC[2]) \div SLOT_MIN

\* the meetings whose row covers slot t for participant p
Covering(p, t) ==
    {i \in 1..Len(rows) :
        /\ rows[i].StartUTC # None
        /\ p \in Range(meetings[i].required)
        /\ RowSlot(rows[i]) <= t
        /\ t < RowSlot(rows[i]) + DurSlots(meetings[i].dur_min)}

\* the meetings a solver assignment puts on slot t for participant p
CoveringVars(p, t) ==
    {v \in value :
        /\ p \in Range(MeetingOf(v[1]).required)
        /\ v[2] <= t
        /\ t < v[2] + DurSlots(MeetingOf(v[1]).dur_min)}

\* C1: whenever the solver returns OPTIMAL or FEASIBLE, no participant is in
\* two scheduled meetings on the same slot, in the solver's assignment and in
\* the decoded rows.
NoDoubleBookingInSchedule ==
    /\ (pc \in {"report", "print", "done"} /\ Solved) =>
          \A p \in MentionedNames : \A t \in Slots : Cardinality(CoveringVars(p, t)) <= 1
    /\ Decoded =>
          \A p \in MentionedNames : \A t \in Slots : Cardinality(Covering(p, t)) <= 1

\* two rows of meetings that share a participant, with candidate intervals
\* that would have overlapped
SharedParticipantScheduled ==
    /\ pc = "done"
    /\ status = FEASIBLE
    /\ Len(rows) = 2
    /\ Range(meetings[1].required) \cap Range(meetings[2].required) # {}
    /\ rows[1].StartUTC # None
    /\ rows[2].StartUTC # None
    /\ meetings[1].dur_min = 45
    /\ \E k \in 1..Len(meeting_candidates["M2"]) :
          meeting_candidates["M2"][k] = RowSlot(rows[1]) + 1

\* C2: whenever the solver returns OPTIMAL or FEASIBLE, every meeting has
\* exactly one true variable and exactly one row, with StartUTC and EndUTC set.
EveryMeetingHasOneRow ==
    /\ (pc \in {"report", "print", "done"} /\ Solved) =>
          \A i \in 1..Len(meetings) :
              Cardinality({v \in value : v[1] = meetings[i].mid}) = 1
    /\ Decoded =>
          /\ Len(rows) = Len(meetings)
          /\ \A i \in 1..Len(meetings) :
                /\ Cardinality({k \in 1..Len(rows) : rows[k].Meeting = meetings[i].mid}) = 1
                /\ rows[i].Meeting = meetings[i].mid
                /\ rows[i].StartUTC # None
                /\ rows[i].EndUTC # None
                /\ rows[i].Penalty # None
    /\ (pc = "done" /\ Solved) => stdout = <<[text |-> "table", arg |-> rows]>>

TwoMeetingsDecoded ==
    /\ pc = "done"
    /\ status = OPTIMAL
    /\ Len(rows) = 2
    /\ Len(meeting_candidates["M1"]) > 1
    /\ Len(meeting_candidates["M2"]) > 1
    /\ rows[1].StartUTC # None
    /\ rows[2].StartUTC # None

\* the local clock, in minutes of the day, at UTC minute n for an offset
LocalMinute(n, utc_off) == (n + OffsetMinutes(utc_off)) % (24 * 60)

\* C3: each availability vector has length HORIZON_SLOTS and is true exactly
\* on the slots whose UTC time, on the participant's local clock modulo 24h,
\* lies in [localStart, localEnd).
AvailabilityIsLocalWindow ==
    pc # "availability" =>
       \A i \in 1..Len(participants) :
          LET p == participants[i]
              v == participant_avail[p.name]
          IN  /\ Len(v) = HORIZON_SLOTS
              /\ \A s \in Slots :
                    v[s + 1] <=> /\ MinutesOfDay(p.start_local) <= LocalMinute(s * SLOT_MIN, p.utc_off)
                                 /\ LocalMinute(s * SLOT_MIN, p.utc_off) < MinutesOfDay(p.end_local)

\* a required participant without an availability vector is available nowhere
AvailableThroughout(p, s, d) ==
    /\ p \in DOMAIN participant_avail
    /\ \A t \in s..(s + d - 1) : participant_avail[p][t + 1]

QualifyingStarts(m) ==
    {s \in Slots :
        /\ s <= HORIZON_SLOTS - DurSlots(m.dur_min)
        /\ \A p \in Range(m.required) : AvailableThroughout(p, s, DurSlots(m.dur_min))}

IsScenario(m) ==
    /\ m.dur_min = 30
    /\ m.required = <<"P1", "P2", "P3">>
    /\ \A i \in 1..Len(participants) :
          /\ participants[i].utc_off = 0
          /\ participants[i].start_local = <<9, 0>>
          /\ participants[i].end_local = <<17, 0>>

\* C4: the candidates of a meeting are, in ascending order and without
\* repetition, exactly the starts s in 0..HORIZON_SLOTS-durationSlots at which
\* every required participant is available on all of [s, s+durationSlots);
\* three participants on 09:00-17:00 at UTC+0 and a 30-minute meeting of all
\* three give exactly the slots 18..33.
CandidatesAreQualifyingStarts ==
    \A mid \in DOMAIN meeting_candidates :
        LET c == meeting_candidates[mid]
            m == MeetingOf(mid)
        IN  /\ Range(c) = QualifyingStarts(m)
            /\ \A k \in 1..(Len(c) - 1) : c[k] < c[k + 1]
            /\ meeting_duration_slots[mid] = DurSlots(m.dur_min)
            /\ IsScenario(m) => c = [k \in 1..16 |-> 17 + k]

ScenarioCandidates ==
    /\ pc = "done"
    /\ IsScenario(meetings[1])
    /\ Len(meeting_candidates["M1"]) = 16
    /\ Len(meetings) = 2
    /\ meeting_candidates["M2"] # <<>>

NoSolutionText == "No feasible solution found. Solver status:"

Printed(text) == {k \in 1..Len(stdout) : stdout[k].text = text}

\* C5: a run in which some meeting has an empty candidate set ends with an
\* EmptyCandidateSet report that names that meeting.
EmptyCandidateSetIsReported ==
    pc = "done" =>
       \A mid \in DOMAIN meeting_candidates :
          meeting_candidates[mid] = <<>> =>
             \E k \in Printed("EmptyCandidateSet") : stdout[k].arg = mid

\* C6: a run the solver ends with UNKNOWN reports a time-out and never the
\* no-feasible-schedule outcome of an INFEASIBLE run.
TimeOutIsNotInfeasible ==
    (pc = "done" /\ status = UNKNOWN) =>
       /\ Printed(NoSolutionText) = {}
       /\ Printed("timed out") # {}

IsPlus14(p) ==
    /\ p.utc_off = 1400
    /\ p.start_local = <<9, 0>>
    /\ p.end_local = <<17, 0>>

Plus14Names == {participants[i].name : i \in {j \in 1..Len(participants) : IsPlus14(participants[j])}}

ExactPenalty(m) ==
    IF 9 * 60 <= m /\ m < 17 * 60 THEN 0
    ELSE IF m < 9 * 60 THEN CeilDiv(9 * 60 - m, 6)
    ELSE CeilDiv(m - 17 * 60, 6)

\* the local minute of the midpoint of slot t for participant p
MidpointLocal(t, p) ==
    LocalMinute(t * SLOT_MIN + SLOT_MIN \div 2, participant_utc_offsets[p])

Occupied(v) ==
    LET m == MeetingOf(v[1])
    IN  (v[2]..(v[2] + DurSlots(m.dur_min) - 1)) \X (1..Len(m.required))

RECURSIVE SumPenalty(_, _)
SumPenalty(m, cells) ==
    IF cells = {} THEN 0
    ELSE LET x == CHOOSE y \in cells : TRUE
         IN  ExactPenalty(MidpointLocal(x[1], m.required[x[2]])) + SumPenalty(m, cells \ {x})

\* C8: every decision variable has one cost, a non-negative integer equal to
\* the sum over the occupied slots and required participants of the exact
\* penalty, and the cost is 0 exactly when every occupied midpoint is inside
\* local [9, 17).
StartCostIsExactPenaltySum ==
    pc \in {"solve", "report", "print", "done"} =>
       /\ DOMAIN start_cost = start_vars
       /\ \A v \in start_vars :
             LET m == MeetingOf(v[1])
             IN  /\ start_cost[v] \in Nat
                 /\ start_cost[v] = SumPenalty(m, Occupied(v))
                 /\ start_cost[v] = 0 <=>
                       \A x \in Occupied(v) :
                          /\ 9 * 60 <= MidpointLocal(x[1], m.required[x[2]])
                          /\ MidpointLocal(x[1], m.required[x[2]]) < 17 * 60

\* one candidate per meeting, no two meetings with a common participant overlapping
ValidPicks ==
    LET n == Len(meetings)
        cand(i) == Range(meeting_candidates[meetings[i].mid])
        over(i, a, j, b) == /\ a < b + DurSlots(meetings[j].dur_min)
                            /\ b < a + DurSlots(meetings[i].dur_min)
    IN  { f \in [1..n -> UNION {cand(i) : i \in 1..n}] :
            /\ \A i \in 1..n : f[i] \in cand(i)
            /\ \A i \in 1..n : \A j \in (i + 1)..n :
                  Range(meetings[i].required) \cap Range(meetings[j].required) # {} =>
                     ~over(i, f[i], j, f[j]) }

PickCost(f) ==
    LET S[k \in 0..Len(meetings)] ==
            IF k = 0 THEN 0 ELSE S[k - 1] + start_cost[<<meetings[k].mid, f[k]>>]
    IN  S[Len(meetings)]

RowsPenalty ==
    LET S[k \in 0..Len(rows)] ==
            IF k = 0 THEN 0 ELSE S[k - 1] + rows[k].Penalty[1]
    IN  S[Len(rows)]

\* C9: when the solver returns OPTIMAL, the penalties of the rows add up to
\* the least total discomfort cost of any pick of one candidate per meeting
\* that double-books no participant.
OptimalRowsHaveMinimalPenalty ==
    (pc = "done" /\ status = OPTIMAL) =>
       /\ \A f \in ValidPicks : RowsPenalty <= PickCost(f)
       /\ \E f \in ValidPicks : RowsPenalty = PickCost(f)

\* an optimum that is not free and that some other valid pick exceeds, with
\* the two meetings competing for a common participant
CostlyOptimum ==
    /\ pc = "done"
    /\ status = OPTIMAL
    /\ Len(rows) = 2
    /\ Range(meetings[1].required) \cap Range(meetings[2].required) # {}
    /\ RowsPenalty > 0
    /\ \E f \in ValidPicks : PickCost(f) > RowsPenalty
    /\ \E v \in start_vars : start_cost[v] = 0

\* C10: when a meeting requires a name that is not in the participant table,
\* the solver is never invoked and no row is produced.
UnknownParticipantFailsFast ==
    (\E i \in 1..Len(meetings) : ~(Range(meetings[i].required) \subseteq KnownNames)) =>
       /\ status = NotSolved
       /\ rows = <<>>

====
